---- MODULE Spec2Model ----
(***************************************************************************)
(* Model of SelectiveFactory<Base, Criterion, Input...>                    *)
(* (src/SelectiveFactory.hpp): a static registry of (Predicate, Factory)   *)
(* function-pointer pairs kept in a std::map keyed by the predicate        *)
(* pointer, created lazily through a naked static pointer, and queried by  *)
(* Produce (all matches) and ProduceOne (first match).                     *)
(*                                                                         *)
(* Function pointers are modelled by their addresses (integers); std::map  *)
(* iterates its keys in ascending address order.                           *)
(***************************************************************************)
EXTENDS Integers, Sequences, FiniteSets, TLC

\* ------------------------------------------------------------------ bounds
\* predicate function addresses 1..MaxPred
MaxPred == 3
\* factory function addresses 0..MaxFact
MaxFact == 1
\* registerPtr calls made in one run
MaxRegs == 2
\* product objects allocated before the last query starts
MaxObjs == 2

\* the template instantiations of SelectiveFactory a program may contain; each
\* has its own static registeredFuns
Insts == {1, 2}
Predicate == 1..MaxPred
Factory == 0..MaxFact

\* ------------------------------------------------- environment (user code)
\* The rule a predicate function implements: the predicates at odd addresses
\* are distinct functions with one and the same logic, and so are those at
\* even addresses.
PredLogic(p) == p % 2

\* A criterion is identified by the set of rules it satisfies.
Criterion == SUBSET {0, 1}

\* (f.first)(criterion)
PredHolds(p, c) == PredLogic(p) \in c

\* std::unique_ptr<Base> holding no object
NoObject == [id |-> 0, by |-> 0]

\* The factory at address 0 encodes its own failure by returning an empty
\* unique_ptr; every other factory returns a newly allocated object.
NullFactory == 0

\* variant: the object made by a factory is kept and handed out again
InvokeFactoryCached(f, n) ==
  IF f = NullFactory
    THEN [obj |-> NoObject, next |-> n]
    ELSE [obj |-> [id |-> f, by |-> f], next |-> n]

\* (f.second)(value...): n objects have been allocated so far
InvokeFactory(f, n) ==
  IF f = NullFactory
    THEN [obj |-> NoObject, next |-> n]
    ELSE [obj |-> [id |-> n + 1, by |-> f], next |-> n + 1]

\* ---------------------------------------------------------------- state
VARIABLES
  registeredFuns,  \* per instantiation: the static FunctionContainer*, 0 = nullptr
  heap,            \* address -> FunctionContainer, for every container allocated
  constructed,     \* per instantiation: number of `new FunctionContainer` executed
  regLog,          \* per instantiation: the registerPtr calls made, in call order
  nextObj,         \* number of product objects allocated by factories so far
  last,            \* the most recent call: its arguments, trace and return value
  fault,           \* undefined behaviour took effect: a call dereferenced a
                   \* pointer that holds no container, or a data race broke one
  thread,          \* per thread: position and locals of its registerPtr call
  insOrder         \* the threads in the order in which their insert ended

vars == <<registeredFuns, heap, constructed, regLog, nextObj, last, fault,
          thread, insOrder>>

\* the state of the threads
threads == <<thread, insOrder>>

\* two threads that call registerPtr concurrently
Threads == {1, 2}

nullptr == 0

\* a default-constructed std::map<Predicate,Factory>
FunctionContainer == [p \in {} |-> 0]

\* ------------------------------------------------------------- std::map
\* variant: the container is assigned the new pair
insertAssign(m, p, f) == (p :> f)

\* variant: operator[] assignment, the later registration wins
insertOverwrite(m, p, f) == (p :> f) @@ m

\* variant: a pair is rejected when a predicate with the same logic is present
insertByLogic(m, p, f) ==
  IF \E q \in DOMAIN m : PredLogic(q) = PredLogic(p) THEN m ELSE (p :> f) @@ m

\* variant: the entries that hold the same factory are erased before the insert
insertUniqueFactory(m, p, f) ==
  IF p \in DOMAIN m THEN m
  ELSE (p :> f) @@ [q \in {k \in DOMAIN m : m[k] # f} |-> m[q]]

\* std::map::insert(std::make_pair(predicate, factory)): no effect if the key
\* is present
insert(m, p, f) == IF p \in DOMAIN m THEN m ELSE (p :> f) @@ m

Min(S) == CHOOSE x \in S : \A y \in S : x <= y

\* iteration order of std::map (range-for): ascending key
RECURSIVE KeyOrder(_)
KeyOrder(S) == IF S = {} THEN <<>>
               ELSE LET k == Min(S) IN <<k>> \o KeyOrder(S \ {k})

\* ------------------------------------------------------------- create()
\* address returned by `new FunctionContainer`: the lowest free address
NewAddr(hp) == Min({a \in 1..(Cardinality(DOMAIN hp) + 1) : a \notin DOMAIN hp})

\* variant: the null check is missing
createAlways(r) ==
  LET a == NewAddr(heap) IN
  [ptr |-> a, heap |-> (a :> FunctionContainer) @@ heap,
   constructed |-> constructed[r] + 1]

\* variant: one static pointer serves every instantiation
createShared(r) ==
  LET set == {s \in Insts : registeredFuns[s] # nullptr} IN
  IF set = {}
    THEN LET a == NewAddr(heap) IN
         [ptr |-> a, heap |-> (a :> FunctionContainer) @@ heap,
          constructed |-> constructed[r] + 1]
    ELSE [ptr |-> registeredFuns[Min(set)], heap |-> heap,
          constructed |-> constructed[r]]

\* if(!registeredFuns) registeredFuns = new FunctionContainer;
\* yields the pointer, heap and construction count of instantiation r after
\* the call
create(r) ==
  IF registeredFuns[r] = nullptr
    THEN LET a == NewAddr(heap) IN
         [ptr |-> a, heap |-> (a :> FunctionContainer) @@ heap,
          constructed |-> constructed[r] + 1]
    ELSE [ptr |-> registeredFuns[r], heap |-> heap,
          constructed |-> constructed[r]]

\* ------------------------------------------------------------ query loops
\* variant: the factory of every entry is invoked, the predicate's value is
\* not tested
RECURSIVE ProduceLoopNoTest(_, _, _, _)
ProduceLoopNoTest(m, ks, c, acc) ==
  IF ks = <<>> THEN acc
  ELSE LET p == Head(ks)
           made == InvokeFactory(m[p], acc.next)
       IN ProduceLoopNoTest(m, Tail(ks), c,
            [result |-> Append(acc.result, made.obj),
             evals |-> Append(acc.evals, p),
             calls |-> Append(acc.calls, <<p, m[p]>>),
             next |-> made.next])

\* the loop of Produce over the keys ks (in iteration order) of container m;
\* acc carries the result vector, the predicates evaluated (evals), the
\* entries whose factory was invoked (calls) and the allocation count
RECURSIVE ProduceLoop(_, _, _, _)
ProduceLoop(m, ks, c, acc) ==
  IF ks = <<>> THEN acc
  ELSE LET p == Head(ks)
           ev == Append(acc.evals, p)
       IN IF PredHolds(p, c)
            THEN LET made == InvokeFactory(m[p], acc.next) IN
                 ProduceLoop(m, Tail(ks), c,
                   [result |-> Append(acc.result, made.obj),
                    evals |-> ev,
                    calls |-> Append(acc.calls, <<p, m[p]>>),
                    next |-> made.next])
            ELSE ProduceLoop(m, Tail(ks), c, [acc EXCEPT !.evals = ev])

\* variant: a default-constructed Base is returned when nothing matches
RECURSIVE ProduceOneLoopDefault(_, _, _, _)
ProduceOneLoopDefault(m, ks, c, acc) ==
  IF ks = <<>>
    THEN [acc EXCEPT !.result = <<[id |-> acc.next + 1, by |-> NullFactory]>>,
                     !.next = acc.next + 1]
  ELSE LET p == Head(ks)
           ev == Append(acc.evals, p)
       IN IF PredHolds(p, c)
            THEN LET made == InvokeFactory(m[p], acc.next) IN
                 [result |-> <<made.obj>>,
                  evals |-> ev,
                  calls |-> Append(acc.calls, <<p, m[p]>>),
                  next |-> made.next]
            ELSE ProduceOneLoopDefault(m, Tail(ks), c, [acc EXCEPT !.evals = ev])

\* variant: the loop does not return at the first match but runs to the end
\* and hands out the object made at the first match
RECURSIVE ProduceOneLoopNoStop(_, _, _, _)
ProduceOneLoopNoStop(m, ks, c, acc) ==
  IF ks = <<>>
    THEN IF acc.result = <<>> THEN [acc EXCEPT !.result = <<NoObject>>] ELSE acc
  ELSE LET p == Head(ks)
           ev == Append(acc.evals, p)
       IN IF PredHolds(p, c) /\ acc.calls = <<>>
            THEN LET made == InvokeFactory(m[p], acc.next) IN
                 ProduceOneLoopNoStop(m, Tail(ks), c,
                   [result |-> <<made.obj>>,
                    evals |-> ev,
                    calls |-> Append(acc.calls, <<p, m[p]>>),
                    next |-> made.next])
            ELSE ProduceOneLoopNoStop(m, Tail(ks), c, [acc EXCEPT !.evals = ev])

\* variant: the container is scanned from its last key to its first
RECURSIVE ProduceOneLoopBack(_, _, _, _)
ProduceOneLoopBack(m, ks, c, acc) ==
  IF ks = <<>> THEN [acc EXCEPT !.result = <<NoObject>>]
  ELSE LET p == ks[Len(ks)]
           ev == Append(acc.evals, p)
       IN IF PredHolds(p, c)
            THEN LET made == InvokeFactory(m[p], acc.next) IN
                 [result |-> <<made.obj>>,
                  evals |-> ev,
                  calls |-> Append(acc.calls, <<p, m[p]>>),
                  next |-> made.next]
            ELSE ProduceOneLoopBack(m, SubSeq(ks, 1, Len(ks) - 1), c,
                                    [acc EXCEPT !.evals = ev])

\* the loop of ProduceOne: returns at the first key whose predicate holds,
\* and an empty unique_ptr after the loop
RECURSIVE ProduceOneLoop(_, _, _, _)
ProduceOneLoop(m, ks, c, acc) ==
  IF ks = <<>> THEN [acc EXCEPT !.result = <<NoObject>>]
  ELSE LET p == Head(ks)
           ev == Append(acc.evals, p)
       IN IF PredHolds(p, c)
            THEN LET made == InvokeFactory(m[p], acc.next) IN
                 [result |-> <<made.obj>>,
                  evals |-> ev,
                  calls |-> Append(acc.calls, <<p, m[p]>>),
                  next |-> made.next]
            ELSE ProduceOneLoop(m, Tail(ks), c, [acc EXCEPT !.evals = ev])

EmptyTrace(n) == [result |-> <<>>, evals |-> <<>>, calls |-> <<>>, next |-> n]

\* ------------------------------------------------------------------ Init
NoCall == [op |-> "none", inst |-> 0, crit |-> {}, result |-> <<>>,
           evals |-> <<>>, calls |-> <<>>, destroyed |-> FALSE,
           redo |-> FALSE]

\* a thread that makes no call
NoThread == [pc |-> "idle", p |-> 0, f |-> 0, sawNull |-> FALSE, seen |-> 0,
             tmp |-> 0, built |-> FALSE, stored |-> FALSE, dirty |-> FALSE,
             target |-> 0, conc |-> FALSE, torn |-> FALSE]

\* registeredFuns starts null.  The static member `deleter` is never used by
\* the class, so no instantiation of the template contains it: no destructor
\* deletes the container, and it stays valid until the process ends.
Init ==
  /\ registeredFuns = [r \in Insts |-> nullptr]
  /\ heap = [a \in {} |-> FunctionContainer]
  /\ constructed = [r \in Insts |-> 0]
  /\ regLog = [r \in Insts |-> <<>>]
  /\ nextObj = 0
  /\ last = NoCall
  /\ fault = FALSE
  /\ thread = [t \in Threads |-> NoThread]
  /\ insOrder = <<>>

RECURSIVE SumLen(_, _)
SumLen(log, S) == IF S = {} THEN 0
                  ELSE LET r == Min(S) IN Len(log[r]) + SumLen(log, S \ {r})

\* --------------------------------------------------------------- actions
\* static void registerPtr(Predicate predicate, Factory factory)
registerPtr(r, p, f) ==
  /\ ~fault
  /\ SumLen(regLog, Insts) < MaxRegs
  /\ LET st == create(r) IN
       /\ registeredFuns' = [registeredFuns EXCEPT ![r] = st.ptr]
       /\ constructed' = [constructed EXCEPT ![r] = st.constructed]
       /\ IF st.ptr \in DOMAIN st.heap
            THEN /\ heap' = [st.heap EXCEPT ![st.ptr] = insert(@, p, f)]
                 /\ fault' = FALSE
            ELSE /\ heap' = st.heap
                 /\ fault' = TRUE
  /\ regLog' = [regLog EXCEPT ![r] = Append(@, <<p, f>>)]
  /\ last' = [NoCall EXCEPT !.op = "registerPtr", !.inst = r]
  /\ UNCHANGED <<nextObj, threads>>

\* the call repeats the query whose result the caller has just destroyed
Repeats(name, r, c) ==
  last.destroyed /\ last.op = name /\ last.inst = r /\ last.crit = c

\* the body shared by the two queries: create(), then the loop over
\* *registeredFuns
Query(name, r, c) ==
  /\ ~fault
  /\ nextObj < MaxObjs
  /\ LET st == create(r) IN
       /\ registeredFuns' = [registeredFuns EXCEPT ![r] = st.ptr]
       /\ constructed' = [constructed EXCEPT ![r] = st.constructed]
       /\ heap' = st.heap
       /\ IF st.ptr \in DOMAIN st.heap
            THEN LET m == st.heap[st.ptr]
                     ks == KeyOrder(DOMAIN m)
                     t == IF name = "Produce"
                            THEN ProduceLoop(m, ks, c, EmptyTrace(nextObj))
                            ELSE ProduceOneLoop(m, ks, c, EmptyTrace(nextObj))
                 IN /\ last' = [op |-> name, inst |-> r, crit |-> c,
                                result |-> t.result, evals |-> t.evals,
                                calls |-> t.calls, destroyed |-> FALSE,
                                redo |-> Repeats(name, r, c)]
                    /\ nextObj' = t.next
                    /\ fault' = FALSE
            ELSE /\ last' = [NoCall EXCEPT !.op = name, !.inst = r, !.crit = c]
                 /\ nextObj' = nextObj
                 /\ fault' = TRUE
  /\ UNCHANGED <<regLog, threads>>

\* static std::vector<std::unique_ptr<Base>> Produce(Criterion, Input...)
Produce(r, c) == Query("Produce", r, c)

\* static std::unique_ptr<Base> ProduceOne(Criterion, Input...)
ProduceOne(r, c) == Query("ProduceOne", r, c)

\* the caller lets the unique_ptrs it was handed go out of scope: the
\* objects they own are destroyed
Destroy ==
  /\ ~fault
  /\ last.op \in {"Produce", "ProduceOne"}
  /\ ~last.destroyed
  /\ \E i \in DOMAIN last.result : last.result[i] # NoObject
  /\ last' = [last EXCEPT !.result = [i \in DOMAIN last.result |-> NoObject],
                          !.destroyed = TRUE]
  /\ UNCHANGED <<registeredFuns, heap, constructed, regLog, nextObj, fault,
                  threads>>

\* a program that uses one instantiation
Next ==
  \/ \E p \in Predicate, f \in Factory : registerPtr(1, p, f)
  \/ \E c \in Criterion : Produce(1, c)
  \/ \E c \in Criterion : ProduceOne(1, c)
  \/ Destroy

Spec == Init /\ [][Next]_vars

\* a program that uses two instantiations with different parameterizations
NextIso ==
  \/ \E r \in Insts, p \in Predicate, f \in Factory : registerPtr(r, p, f)
  \/ \E r \in Insts, c \in Criterion : Produce(r, c)
  \/ \E r \in Insts, c \in Criterion : ProduceOne(r, c)
  \/ Destroy

SpecIso == Init /\ [][NextIso]_vars

\* ------------------------------------------------------------- two threads
\* Each thread calls registerPtr(p, f) once on instantiation 1.  Nothing in
\* the class synchronizes the calls, so a call runs as separate steps: the
\* null check of create(), the allocation of new FunctionContainer, its
\* constructor and the store to registeredFuns in either order, and
\* registeredFuns->insert, which itself takes time: it begins on the
\* container the pointer designates and ends later.
InitThreads ==
  /\ registeredFuns = [r \in Insts |-> nullptr]
  /\ heap = [a \in {} |-> FunctionContainer]
  /\ constructed = [r \in Insts |-> 0]
  /\ regLog = [r \in Insts |-> <<>>]
  /\ nextObj = 0
  /\ last = NoCall
  /\ fault = FALSE
  /\ thread \in [Threads -> {[NoThread EXCEPT !.pc = "check", !.p = p,
                                               !.f = f] :
                                p \in Predicate, f \in Factory}]
  /\ insOrder = <<>>

\* the other thread is inside its registerPtr call
Running(t) ==
  \E u \in Threads \ {t} : thread[u].pc \notin {"check", "done", "crashed"}

\* a thread died in registerPtr, and the process with it
Crashed == \E t \in Threads : thread[t].pc = "crashed"

\* variant: the null check is missing, every call allocates
createCheckAlways(t) ==
  /\ ~Crashed
  /\ thread[t].pc = "check"
  /\ thread' = [thread EXCEPT
                  ![t].sawNull = (registeredFuns[1] = nullptr),
                  ![t].seen = registeredFuns[1],
                  ![t].conc = Running(t),
                  ![t].pc = "new"]
  /\ regLog' = [regLog EXCEPT ![1] = Append(@, <<thread[t].p, thread[t].f>>)]
  /\ UNCHANGED <<registeredFuns, heap, constructed, nextObj, last, fault,
                  insOrder>>

\* if(!registeredFuns)
createCheck(t) ==
  /\ ~Crashed
  /\ thread[t].pc = "check"
  /\ thread' = [thread EXCEPT
                  ![t].sawNull = (registeredFuns[1] = nullptr),
                  ![t].seen = registeredFuns[1],
                  ![t].conc = Running(t),
                  ![t].pc = IF registeredFuns[1] = nullptr
                              THEN "new" ELSE "insert"]
  /\ regLog' = [regLog EXCEPT ![1] = Append(@, <<thread[t].p, thread[t].f>>)]
  /\ UNCHANGED <<registeredFuns, heap, constructed, nextObj, last, fault,
                  insOrder>>

\* new FunctionContainer, first part: operator new hands out the storage.
\* The constructor and the store to registeredFuns both follow, and nothing
\* orders them for another thread: a build may store the pointer before the
\* constructor has finished.
createNew(t) ==
  /\ ~Crashed
  /\ thread[t].pc = "new"
  /\ LET a == NewAddr(heap) IN
       /\ heap' = (a :> FunctionContainer) @@ heap
       /\ thread' = [thread EXCEPT ![t].tmp = a, ![t].pc = "init"]
  /\ UNCHANGED <<registeredFuns, constructed, regLog, nextObj, last, fault,
                  insOrder>>

\* the position of thread t after one of the two parts of
\* `registeredFuns=new FunctionContainer` that follow the allocation
AfterInit(other) == IF other THEN "insert" ELSE "init"

\* another thread began an insert on the storage at address a
Touched(t, a) == \E u \in Threads \ {t} : thread[u].target = a

\* new FunctionContainer, second part: the constructor ends.  On untouched
\* storage it leaves an empty map.  If the pointer was stored first and
\* another thread began an insert on the storage in the meantime, the
\* constructor's writes race with that insert: those that come after it may
\* reset the links, which leaves the map empty, or miss them, which leaves the
\* entry linked in a tree whose header says otherwise.
createConstruct(t) ==
  /\ ~Crashed
  /\ thread[t].pc = "init"
  /\ ~thread[t].built
  /\ LET a == thread[t].tmp IN
       \E keeps \in (IF Touched(t, a) THEN BOOLEAN ELSE {FALSE}) :
         /\ heap' = [heap EXCEPT ![a] = IF keeps THEN @ ELSE FunctionContainer]
         /\ fault' = (fault \/ (keeps /\ heap[a] # FunctionContainer))
         /\ thread' = [thread EXCEPT ![t].built = TRUE,
                                     ![t].dirty = Touched(t, a),
                                     ![t].pc = AfterInit(thread[t].stored)]
  /\ constructed' = [constructed EXCEPT ![1] = @ + 1]
  /\ UNCHANGED <<registeredFuns, regLog, nextObj, last, insOrder>>

\* registeredFuns = (the new container)
createStore(t) ==
  /\ ~Crashed
  /\ thread[t].pc = "init"
  /\ ~thread[t].stored
  /\ registeredFuns' = [registeredFuns EXCEPT ![1] = thread[t].tmp]
  /\ thread' = [thread EXCEPT ![t].stored = TRUE,
                              ![t].pc = AfterInit(thread[t].built)]
  /\ UNCHANGED <<heap, constructed, regLog, nextObj, last, fault, insOrder>>

\* the containers `registeredFuns->` of thread t's insert can designate: the
\* pointer as it is now (the call loads it again), or the value the call
\* already holds, which is the container it stored itself or the pointer its
\* null check read (an optimized build does not load the pointer again)
Targets(t) ==
  {registeredFuns[1],
   IF thread[t].sawNull THEN thread[t].tmp ELSE thread[t].seen}

\* the storage at address a is allocated and its constructor has not ended
Raw(a) == \E u \in Threads : thread[u].tmp = a /\ ~thread[u].built

\* the container at address a was written by an insert before its
\* constructor had ended
Dirty(a) == \E u \in Threads : thread[u].tmp = a /\ thread[u].dirty

\* registeredFuns->insert(std::make_pair(predicate,factory)) begins.  If the
\* other thread is inside insert on the same container the two calls are a
\* data race on that container; if the container is not constructed yet the
\* insert races with its constructor; and an insert on a container that such
\* a race has gone over works on whatever the race left.
registerInsert(t) ==
  /\ ~Crashed
  /\ thread[t].pc = "insert"
  /\ \E a \in Targets(t) :
       LET race == {u \in Threads \ {t} : /\ thread[u].pc = "inserting"
                                           /\ thread[u].target = a}
       IN thread' = [u \in Threads |->
                       IF u = t
                         THEN [thread[t] EXCEPT !.target = a,
                                                !.pc = "inserting",
                                                !.torn = \/ race # {}
                                                         \/ Raw(a)
                                                         \/ Dirty(a)]
                       ELSE IF u \in race
                         THEN [thread[u] EXCEPT !.torn = TRUE]
                       ELSE thread[u]]
  /\ UNCHANGED <<registeredFuns, heap, constructed, regLog, nextObj, last,
                  fault, insOrder>>

\* what a data race on a std::map can leave behind: the entry linked in or
\* not, the entries of the other party still linked or unlinked, and the tree
\* sound, left inconsistent (size() differs from the entries reachable, the
\* header's leftmost or rightmost link points at the wrong node, two nodes
\* for one key), or the thread killed on a bad node pointer
RaceOutcomes ==
  [linked : BOOLEAN, unlinks : BOOLEAN, damage : {"none", "corrupt", "crash"}]

\* the outcome of an insert that had a constructed container to itself
SoundInsert == [linked |-> TRUE, unlinks |-> FALSE, damage |-> "none"]

\* the map m without the entries the threads other than t put into the
\* container at address a
Unlinked(m, t, a) ==
  LET gone == {thread[u].p : u \in {v \in Threads \ {t} : thread[v].target = a}}
  IN [k \in DOMAIN m \ gone |-> m[k]]

\* the insert ends and registerPtr returns.  Alone on a constructed container
\* the insert does what insert does.  After a data race the behaviour is
\* undefined and any of RaceOutcomes can be the result; a container left
\* inconsistent may still hold both entries.
registerInsertEnd(t) ==
  /\ ~Crashed
  /\ thread[t].pc = "inserting"
  /\ LET a == thread[t].target IN
       \E o \in (IF thread[t].torn THEN RaceOutcomes ELSE {SoundInsert}) :
         LET base == IF o.unlinks THEN Unlinked(heap[a], t, a) ELSE heap[a]
             done == IF o.linked THEN insert(base, thread[t].p, thread[t].f)
                                 ELSE base
         IN /\ heap' = [heap EXCEPT ![a] = done]
            /\ fault' = (fault \/ o.damage # "none")
            /\ thread' = [thread EXCEPT
                            ![t].pc = IF o.damage = "crash" THEN "crashed"
                                                            ELSE "done"]
            /\ insOrder' = IF o.damage = "crash" THEN insOrder
                                                 ELSE Append(insOrder, t)
  /\ UNCHANGED <<registeredFuns, constructed, regLog, nextObj, last>>

NextThreads ==
  \/ \E t \in Threads : createCheck(t)
  \/ \E t \in Threads : createNew(t)
  \/ \E t \in Threads : createConstruct(t)
  \/ \E t \in Threads : createStore(t)
  \/ \E t \in Threads : registerInsert(t)
  \/ \E t \in Threads : registerInsertEnd(t)

SpecThreads == InitThreads /\ [][NextThreads]_vars

\* ------------------------------------------------- observations of a state
Range(q) == {q[i] : i \in DOMAIN q}

\* the container instantiation r's pointer designates (none behind nullptr)
Entries(r) == IF registeredFuns[r] \in DOMAIN heap
                THEN heap[registeredFuns[r]] ELSE FunctionContainer

\* its entries as (predicate, factory) pairs
EntrySet(r) == {<<p, Entries(r)[p]>> : p \in DOMAIN Entries(r)}

Queries == {"Produce", "ProduceOne"}

\* ------------------------------------------ what the specification expects
\* the registrations of a call log that were the first of their predicate, in
\* call order: the registry's entries in registration order
RECURSIVE FirstRegs(_)
FirstRegs(log) ==
  IF log = <<>> THEN <<>>
  ELSE LET front == FirstRegs(SubSeq(log, 1, Len(log) - 1))
           e == log[Len(log)]
       IN IF \E i \in DOMAIN front : front[i][1] = e[1]
            THEN front ELSE Append(front, e)

\* the entries of a sequence whose predicate holds for c, in the same order
RECURSIVE Matching(_, _)
Matching(es, c) ==
  IF es = <<>> THEN <<>>
  ELSE IF PredHolds(Head(es)[1], c)
         THEN <<Head(es)>> \o Matching(Tail(es), c)
         ELSE Matching(Tail(es), c)

\* no two calls of the log name the same predicate
DistinctPreds(log) ==
  \A i, j \in DOMAIN log : log[i][1] = log[j][1] => i = j

\* the entries of r whose predicate holds for c
MatchSet(r, c) == {e \in EntrySet(r) : PredHolds(e[1], c)}

\* ------------------------------------------------------------------ claims
\* C1: whatever the order of the first registrations and queries of an
\* instantiation, no call reaches a missing container (the storage exists
\* before the first insert or query touches it), the storage is constructed
\* at most once, and exactly once as soon as a call has touched it.
C1_ConstructedOnceBeforeUse ==
  /\ ~fault
  /\ \A r \in Insts :
       /\ constructed[r] <= 1
       /\ (constructed[r] = 0) = (registeredFuns[r] = nullptr)
       /\ (regLog[r] # <<>> \/ last.inst = r) =>
            /\ constructed[r] = 1
            /\ registeredFuns[r] \in DOMAIN heap

\* the storage was first touched by a query, before any registration: the
\* query constructed it and read the empty container
C1_Witness ==
  /\ last.op \in Queries
  /\ last.inst = 1
  /\ regLog[1] = <<>>
  /\ constructed[1] = 1
  /\ registeredFuns[1] \in DOMAIN heap

\* C2: registrations with pairwise distinct predicates are all present,
\* whatever the order they were made in: the set of entries equals the set of
\* registered pairs (which does not depend on the order of the log), and a
\* Produce that runs then meets every registered predicate.
C2_OrderIndependence ==
  \A r \in Insts :
    DistinctPreds(regLog[r]) =>
      /\ EntrySet(r) = Range(regLog[r])
      /\ (last.op = "Produce" /\ last.inst = r) =>
           Range(last.evals) = {e[1] : e \in Range(regLog[r])}

\* two registrations made against the address order, then a query
C2_Witness ==
  /\ Len(regLog[1]) = 2
  /\ regLog[1][1][1] > regLog[1][2][1]
  /\ last.op = "Produce"
  /\ last.inst = 1
  /\ Len(last.evals) = 2

\* C3 (as claimed): Produce invokes the factories of the matching entries in
\* the order in which those entries were registered, and returns their
\* objects in that order.
C3_RegistrationOrder ==
  (last.op = "Produce" /\ ~last.destroyed) =>
    /\ last.calls = Matching(FirstRegs(regLog[last.inst]), last.crit)
    /\ Len(last.result) = Len(last.calls)
    /\ \A i \in DOMAIN last.result : last.result[i].by = last.calls[i][2]

\* C4 (as claimed): ProduceOne returns the object made by the factory of the
\* earliest-registered entry whose predicate holds.
C4_EarliestRegistered ==
  (/\ last.op = "ProduceOne"
   /\ ~last.destroyed
   /\ Matching(FirstRegs(regLog[last.inst]), last.crit) # <<>>) =>
    /\ last.calls = <<Head(Matching(FirstRegs(regLog[last.inst]), last.crit))>>
    /\ last.result[1].by = last.calls[1][2]

\* C5: after any sequence of registerPtr calls the registry holds exactly
\* one entry per distinct predicate registered so far, bound to the factory
\* of the first registration of that predicate (so a registration of a
\* predicate that is already present changes nothing).
C5_Idempotence ==
  \A r \in Insts :
    /\ EntrySet(r) = Range(FirstRegs(regLog[r]))
    /\ Cardinality(EntrySet(r)) =
         Cardinality({e[1] : e \in Range(regLog[r])})

\* a predicate registered twice with different factories: the first is kept
C5_Witness ==
  /\ Len(regLog[1]) = 2
  /\ regLog[1][1][1] = regLog[1][2][1]
  /\ regLog[1][1][2] # regLog[1][2][2]
  /\ EntrySet(1) = {regLog[1][1]}
  /\ last.op = "registerPtr"

\* C6: Produce evaluates the predicate of each entry exactly once, invokes
\* the factory of exactly the entries whose predicate holds, once each, and
\* returns as many elements as there are matching entries.
C6_ProduceOncePerEntry ==
  last.op = "Produce" =>
    LET r == last.inst IN
    /\ Range(last.evals) = DOMAIN Entries(r)
    /\ Len(last.evals) = Cardinality(DOMAIN Entries(r))
    /\ Range(last.calls) = MatchSet(r, last.crit)
    /\ Len(last.calls) = Cardinality(MatchSet(r, last.crit))
    /\ Len(last.result) = Cardinality(MatchSet(r, last.crit))

\* a Produce over one matching and one non-matching entry
C6_Witness ==
  /\ last.op = "Produce"
  /\ Len(last.evals) = 2
  /\ Len(last.calls) = 1
  /\ ~last.destroyed

\* C7: when no registered predicate holds for the criterion (also in a
\* registry nothing was registered in), Produce returns an empty sequence,
\* ProduceOne an empty unique_ptr, no factory is invoked, no fault occurs.
C7_NoMatch ==
  (last.op \in Queries /\ MatchSet(last.inst, last.crit) = {}) =>
    /\ last.op = "Produce" => last.result = <<>>
    /\ last.op = "ProduceOne" => last.result = <<NoObject>>
    /\ last.calls = <<>>
    /\ ~fault

\* ProduceOne over a non-empty registry none of whose predicates holds
C7_Witness ==
  /\ last.op = "ProduceOne"
  /\ Entries(last.inst) # FunctionContainer
  /\ MatchSet(last.inst, last.crit) = {}
  /\ last.result = <<NoObject>>

\* C8 (as claimed): ProduceOne returns the no-object result if and only if
\* no registered predicate holds for the criterion.
C8_NoneIffNoMatch ==
  (last.op = "ProduceOne" /\ ~last.destroyed) =>
    ((last.result = <<NoObject>>) = (MatchSet(last.inst, last.crit) = {}))

\* the results of Produce and ProduceOne on container m for criterion c when
\* n objects have been allocated
QueryResults(m, c, n) ==
  <<ProduceLoop(m, KeyOrder(DOMAIN m), c, EmptyTrace(n)),
    ProduceOneLoop(m, KeyOrder(DOMAIN m), c, EmptyTrace(n))>>

\* C9: a registerPtr on one instantiation leaves the pointer and the entries
\* of every other instantiation as they were, and with them the result of
\* every Produce and ProduceOne on the other instantiation.
C9_Isolation ==
  [][\A r \in Insts :
       (last'.op = "registerPtr" /\ last'.inst = r) =>
         \A s \in Insts \ {r} :
           /\ registeredFuns'[s] = registeredFuns[s]
           /\ Entries(s)' = Entries(s)
           /\ \A c \in Criterion :
                QueryResults(Entries(s)', c, nextObj')
                  = QueryResults(Entries(s), c, nextObj)]_vars

\* both instantiations hold entries, and they differ
C9_Witness ==
  /\ EntrySet(1) # {}
  /\ EntrySet(2) # {}
  /\ EntrySet(1) # EntrySet(2)
  /\ last.op = "registerPtr"

\* C10: a query changes no entry and the containers hold function pointers
\* only (no produced object); every object a query returns is allocated by
\* that query, hence distinct from all objects returned before; and the
\* query that follows the destruction of a result, made with the same
\* criterion, selects the same entries.
C10_OwnershipTransfer ==
  [][(last'.op \in Queries /\ ~last'.destroyed) =>
       /\ \A r \in Insts : EntrySet(r)' = EntrySet(r)
       /\ \A a \in DOMAIN heap' : \A p \in DOMAIN heap'[a] :
            heap'[a][p] \in Factory
       /\ \A i \in DOMAIN last'.result :
            \/ last'.result[i] = NoObject
            \/ /\ last'.result[i].id > nextObj
               /\ \A j \in DOMAIN last'.result :
                    last'.result[j].id = last'.result[i].id => j = i
       /\ last'.redo => last'.calls = last.calls]_vars

\* a result was destroyed, the same query was made again and returned an
\* object
C10_Witness ==
  /\ last.op \in Queries
  /\ last.redo
  /\ ~last.destroyed
  /\ \E i \in DOMAIN last.result : last.result[i].id > 1
  /\ nextObj > 1

\* C11: ProduceOne invokes at most one factory, evaluates the predicates of
\* the entries up to and including the first matching one in iteration order,
\* once each and in that order, and no predicate of a later entry.
C11_StopsAtFirstMatch ==
  last.op = "ProduceOne" =>
    LET ks == KeyOrder(DOMAIN Entries(last.inst))
        hits == {i \in DOMAIN ks : PredHolds(ks[i], last.crit)}
        stop == IF hits = {} THEN Len(ks) ELSE Min(hits)
    IN /\ Len(last.calls) <= 1
       /\ last.evals = SubSeq(ks, 1, stop)

\* ProduceOne over two entries, the first of which matches: the second is
\* not evaluated
C11_Witness ==
  /\ last.op = "ProduceOne"
  /\ Cardinality(DOMAIN Entries(last.inst)) = 2
  /\ Len(last.evals) = 1
  /\ Len(last.calls) = 1

\* C12: registrations are told apart by the identity of the predicate only:
\* two registered predicates with different addresses are both entries, also
\* when they implement the same logic and also when they were registered with
\* the same factory, and a Produce with a criterion both accept invokes the
\* factory of each and returns one element for each.
C12_IdentityOnly ==
  \A r \in Insts : \A i, j \in DOMAIN regLog[r] :
    LET a == regLog[r][i]
        b == regLog[r][j]
    IN (a[1] # b[1] /\ (PredLogic(a[1]) = PredLogic(b[1]) \/ a[2] = b[2])) =>
         /\ {a[1], b[1]} \subseteq DOMAIN Entries(r)
         /\ (/\ last.op = "Produce"
             /\ last.inst = r
             /\ PredHolds(a[1], last.crit)
             /\ PredHolds(b[1], last.crit)) =>
              /\ \E k \in DOMAIN last.calls : last.calls[k][1] = a[1]
              /\ \E k \in DOMAIN last.calls : last.calls[k][1] = b[1]
              /\ Len(last.result) = Len(last.calls)

\* two predicates with the same logic registered with the same factory, and a
\* Produce they both accept: two factory calls
C12_Witness ==
  /\ Len(regLog[1]) = 2
  /\ regLog[1][1][1] # regLog[1][2][1]
  /\ PredLogic(regLog[1][1][1]) = PredLogic(regLog[1][2][1])
  /\ regLog[1][1][2] = regLog[1][2][2]
  /\ last.op = "Produce"
  /\ last.inst = 1
  /\ Len(last.calls) = 2
  /\ Len(last.result) = 2

\* C14: no step removes an entry or binds its predicate to another factory:
\* every entry of a state is an entry of the next state.
C14_OnlyGrows ==
  [][\A r \in Insts : EntrySet(r) \subseteq EntrySet(r)']_vars

\* an entry, registered first, is still there after a second registration and
\* a query
C14_Witness ==
  /\ Len(regLog[1]) = 2
  /\ regLog[1][1][1] # regLog[1][2][1]
  /\ regLog[1][1] \in EntrySet(1)
  /\ Cardinality(EntrySet(1)) = 2
  /\ last.op \in Queries

\* C15: in every state and for every criterion, ProduceOne invokes the
\* factory of the entry that Produce invokes first, and invokes none exactly
\* when Produce returns the empty vector; the latest call is one of the two.
C15_ProduceOneAgrees ==
  \A r \in Insts : \A c \in Criterion :
    LET q == QueryResults(Entries(r), c, nextObj)
    IN /\ (q[2].calls = <<>>) = (q[1].result = <<>>)
       /\ q[1].calls # <<>> => q[2].calls = <<Head(q[1].calls)>>
       /\ (last.inst = r /\ last.crit = c /\ last.op = "ProduceOne") =>
            last.calls = q[2].calls
       /\ (last.inst = r /\ last.crit = c /\ last.op = "Produce") =>
            last.calls = q[1].calls

\* ProduceOne over two matching entries
C15_Witness ==
  /\ last.op = "ProduceOne"
  /\ Cardinality(MatchSet(last.inst, last.crit)) = 2
  /\ Len(last.calls) = 1

\* every thread has returned from registerPtr
AllDone == \A t \in Threads : thread[t].pc = "done"

\* the entry of the predicate thread t registered is in the registry
Present(t) == thread[t].p \in DOMAIN Entries(1)

\* both threads found the pointer null
Raced == \A t \in Threads : thread[t].sawNull

\* an insert was not alone on a constructed container: the two inserts ran
\* at the same time on one container, or one began before the constructor of
\* its container had ended, or on a container written before that
Torn == \E t \in Threads : thread[t].torn

\* the pointer designates the container thread t stored
StoredLast(t) == thread[t].sawNull /\ registeredFuns[1] = thread[t].tmp

\* C16 (as claimed): when the two calls are over, the storage was constructed
\* exactly once and both registrations are present.
C16_ThreadSafe ==
  AllDone => (constructed[1] = 1 /\ \A t \in Threads : Present(t))

\* C16 (amended): when the two calls are over, the storage was constructed
\* once if one thread's null check came after the other's pointer store and
\* twice if both threads found the pointer null; and if each insert had a
\* constructed container to itself while it ran, the registry is intact, both
\* registrations are present in the first case, and the registration of the
\* thread whose pointer store ran last is present in the second.
C16_Interleaved ==
  AllDone =>
    /\ constructed[1] = IF Raced THEN 2 ELSE 1
    /\ ~Torn =>
         /\ ~fault
         /\ ~Raced => \A t \in Threads : Present(t)
         /\ Raced => \A t \in Threads : StoredLast(t) => Present(t)

\* the second call began while the first was between its null check and its
\* return, found the pointer stored, and the two inserts ran one after the
\* other on the constructed container: it holds the two registrations
C16_Witness ==
  /\ AllDone
  /\ \E t \in Threads : thread[t].conc
  /\ ~Raced
  /\ ~Torn
  /\ constructed[1] = 1
  /\ thread[1].p # thread[2].p
  /\ DOMAIN Entries(1) = {thread[t].p : t \in Threads}
====
